---- MODULE Spec2Model ----
(***************************************************************************)
(* MediaPull host process (src-tauri): the download commands               *)
(* (commands/download.rs), the worker supervisor and event router          *)
(* (python.rs: run_python_module, kill_process) and one caller that        *)
(* passes no cancellation handle (commands/analyze.rs).                    *)
(*                                                                         *)
(* Every Tauri command is an async task; tasks interleave at every .await  *)
(* and run on several threads, so each statement sequence between two      *)
(* accesses of shared state is one action.                                 *)
(***************************************************************************)
EXTENDS Naturals, Sequences, FiniteSets

(* ------------------------------ bounds -------------------------------- *)

\* concurrent start_download calls that may be outstanding
NumStart == 2
\* concurrent cancel_download calls that may be outstanding
NumCancel == 1
\* lines a worker writes on stdout in one run, router specification
MaxLines == 3
\* lines a worker writes on stdout in one run, concurrency specification
MaxCoreLines == 1

(* --------------------------- program constants ------------------------- *)

\* python.rs:231  stderr_output.lines().take(20)
StderrLogLimit == 20

(* ------------------------------- tasks --------------------------------- *)

Starters   == 1 .. NumStart
Cancellers == (NumStart + 1) .. (NumStart + NumCancel)
Analyzer   == NumStart + NumCancel + 1
Runners    == Starters \cup {Analyzer}
Tasks      == Runners \cup Cancellers

\* Option<T>
None    == << >>
Some(v) == << v >>

\* Result<serde_json::Value, String>, and Result<(), String> for cancel
Ok(v)  == [ok |-> TRUE,  val |-> v]
Err(m) == [ok |-> FALSE, val |-> m]

(* ----------------------- worker output: sample lines ------------------- *)

TxtProgress     == "{\"event\":\"progress\",\"stage\":\"download\",\"percent\":50}"
TxtProgressBare == "{\"event\":\"progress\"}"
TxtLog          == "{\"event\":\"log\",\"level\":\"warning\",\"message\":\"slow\"}"
TxtLogBare      == "{\"event\":\"log\"}"
TxtResult       == "{\"event\":\"result\",\"data\":\"a.mp4\"}"
TxtResult2      == "{\"event\":\"result\",\"data\":\"b.mp4\"}"
TxtResultNoData == "{\"event\":\"result\"}"
TxtError        == "{\"event\":\"error\",\"code\":\"E_NET\",\"message\":\"timeout\"}"
TxtErrorNoCode  == "{\"event\":\"error\",\"message\":\"no space\"}"
TxtErrorNoMsg   == "{\"event\":\"error\",\"code\":\"E_NET\"}"
TxtUnknown      == "{\"event\":\"heartbeat\"}"
TxtNoEvent      == "{\"stage\":\"download\"}"
TxtRaw          == "Downloading webpage"
TxtBlank        == "   "
TxtEmpty        == ""
\* stands for a line whose bytes are not valid UTF-8
TxtBadUtf8      == "<bytes ff fe>"

\* every line a worker may write in the router specification
AllLines ==
    { TxtProgress, TxtProgressBare, TxtLog, TxtLogBare, TxtResult, TxtResult2,
      TxtResultNoData, TxtError, TxtErrorNoCode, TxtErrorNoMsg, TxtUnknown,
      TxtNoEvent, TxtRaw, TxtBlank, TxtEmpty, TxtBadUtf8 }

\* the lines a worker may write in the concurrency specification
CoreLines == { TxtProgress, TxtResult, TxtError }

\* stderr texts a worker may leave behind, as the lines of str::lines()
StderrSamples ==
    { << >>, << "  " >>, << "Traceback (most recent call last):", "", "KeyError: 'url'" >> }

\* reader.lines() yields Err for a line that is not UTF-8
ReadsOk(line) == line # TxtBadUtf8

\* line.trim().is_empty()
TrimIsEmpty(line) == line \in { TxtEmpty, TxtBlank, "  " }

\* str::trim on the sample stderr lines
Trim(line) == IF TrimIsEmpty(line) THEN "" ELSE line

\* PythonEvent with every #[serde(default)] field absent
BlankEvent(tag) ==
    [ event |-> tag, stage |-> None, percent |-> None, speed_mbps |-> None,
      eta_seconds |-> None, fps |-> None, level |-> None, message |-> None,
      code |-> None, data |-> None ]

\* serde_json::from_str::<PythonEvent>(&line) on the sample lines:
\* Some(event) for Ok(event), None for Err(_)
FromStr(line) ==
    CASE line = TxtProgress ->
            Some([BlankEvent("progress") EXCEPT !.stage = Some("download"),
                                                !.percent = Some(50)])
      [] line = TxtProgressBare -> Some(BlankEvent("progress"))
      [] line = TxtLog ->
            Some([BlankEvent("log") EXCEPT !.level = Some("warning"),
                                           !.message = Some("slow")])
      [] line = TxtLogBare -> Some(BlankEvent("log"))
      [] line = TxtResult -> Some([BlankEvent("result") EXCEPT !.data = Some("a.mp4")])
      [] line = TxtResult2 -> Some([BlankEvent("result") EXCEPT !.data = Some("b.mp4")])
      [] line = TxtResultNoData -> Some(BlankEvent("result"))
      [] line = TxtError ->
            Some([BlankEvent("error") EXCEPT !.code = Some("E_NET"),
                                             !.message = Some("timeout")])
      [] line = TxtErrorNoCode ->
            Some([BlankEvent("error") EXCEPT !.message = Some("no space")])
      [] line = TxtErrorNoMsg ->
            Some([BlankEvent("error") EXCEPT !.code = Some("E_NET")])
      [] line = TxtUnknown -> Some(BlankEvent("heartbeat"))
      [] OTHER -> None

\* Option::unwrap_or / unwrap_or_default / unwrap_or_else
UnwrapOr(opt, d) == IF opt = None THEN d ELSE opt[1]

(* ------------------------------ notifications -------------------------- *)

\* app.emit(chan, payload); src is the stdout line (its index) whose handling
\* emitted it, 0 when it was not emitted by the line loop
Notification(chan, payload, src) == [chan |-> chan, payload |-> payload, src |-> src]

LogPayload(level, message) == [level |-> level, message |-> message]

ProgressPayload(event) ==
    [ stage       |-> UnwrapOr(event.stage, ""),
      percent     |-> UnwrapOr(event.percent, 0),
      speed_mbps  |-> UnwrapOr(event.speed_mbps, 0),
      eta_seconds |-> UnwrapOr(event.eta_seconds, 0),
      fps         |-> UnwrapOr(event.fps, 0) ]

(* ------------------------------ event router --------------------------- *)

\* let mut result / error_msg / error_code
RouterInit == [result |-> None, error_msg |-> None, error_code |-> None]

\* faulty variant of ForwardRaw: the raw line is logged at the default level
ForwardRaw_AsInfo(line, i) ==
    << Notification("download-log", LogPayload("info", line), i) >>

\* python.rs 183-186: an undecodable line becomes a debug log of the raw line
ForwardRaw(line, i) ==
    << Notification("download-log", LogPayload("debug", line), i) >>

\* faulty variant of ForwardProgress: a progress event without a percent is skipped
ForwardProgress_OnlyWithPercent(event, i) ==
    IF event.percent = None THEN << >>
    ELSE << Notification("download-progress", ProgressPayload(event), i) >>

\* python.rs 193-199: a progress event is emitted with defaults filled in
ForwardProgress(event, i) ==
    << Notification("download-progress", ProgressPayload(event), i) >>

\* python.rs 202-205: a log event is emitted, level "info" unless given
ForwardLog(event, i) ==
    << Notification("download-log",
                    LogPayload(UnwrapOr(event.level, "info"),
                               UnwrapOr(event.message, "")), i) >>

\* the notifications one iteration of the line loop emits for `line`,
\* the i-th line of stdout
LineEmits(line, i) ==
    IF ~ReadsOk(line) \/ TrimIsEmpty(line) THEN << >>
    ELSE IF FromStr(line) = None THEN ForwardRaw(line, i)
    ELSE LET event == FromStr(line)[1] IN
         CASE event.event = "progress" -> ForwardProgress(event, i)
           [] event.event = "log" -> ForwardLog(event, i)
           [] OTHER -> << >>

\* the router's variables after one iteration of the line loop on `line`
LineRoute(st, line) ==
    IF ~ReadsOk(line) \/ TrimIsEmpty(line) \/ FromStr(line) = None THEN st
    ELSE LET event == FromStr(line)[1] IN
         CASE event.event = "result" -> [st EXCEPT !.result = event.data]
           [] event.event = "error" ->
                [st EXCEPT !.error_code = event.code, !.error_msg = event.message]
           [] OTHER -> st

RECURSIVE RouteAll(_, _)
\* the router's variables after the line loop has consumed the lines `ls`
RouteAll(st, ls) ==
    IF ls = << >> THEN st ELSE RouteAll(LineRoute(st, Head(ls)), Tail(ls))

RECURSIVE JoinLines(_, _)
\* Vec<&str>::join(sep)
JoinLines(ls, sep) ==
    IF ls = << >> THEN ""
    ELSE IF Len(ls) = 1 THEN ls[1]
    ELSE ls[1] \o sep \o JoinLines(Tail(ls), sep)

NotBlank(l) == ~TrimIsEmpty(l)

\* stderr_output.lines().filter(|l| !l.trim().is_empty()).collect().join(" | ")
StderrSummary(stderr) == JoinLines(SelectSeq(stderr, NotBlank), " | ")

\* Iterator::take(n)
Take(s, n) == IF Len(s) <= n THEN s ELSE SubSeq(s, 1, n)

\* the "[stderr] ..." debug logs emitted after the worker's stderr is collected
StderrEmits(stderr) ==
    LET shown == SelectSeq(Take(stderr, StderrLogLimit), NotBlank)
    IN  [ k \in 1 .. Len(shown) |->
            Notification("download-log",
                         LogPayload("debug", "[stderr] " \o Trim(shown[k])), 0) ]

\* faulty variant of AbsentResult: the stderr summary is returned as it is
AbsentResult_NoFallback(module, python_parent, stderr) ==
    Err(StderrSummary(stderr))

\* the error of a run that stored neither a result nor an error message
AbsentResult(module, python_parent, stderr) ==
    IF StderrSummary(stderr) = ""
    THEN Err("Python module '" \o module \o "' returned no result (PYTHONPATH="
             \o python_parent \o ")")
    ELSE Err("Python error: " \o StderrSummary(stderr))

\* the value run_python_module returns once stdout and stderr are exhausted
FinalOutcome(st, module, python_parent, stderr) ==
    IF st.error_msg # None
    THEN Err(UnwrapOr(st.error_code, "unknown") \o ": " \o st.error_msg[1])
    ELSE IF st.result # None THEN Ok(st.result[1])
    ELSE AbsentResult(module, python_parent, stderr)

(* -------------------------------- state -------------------------------- *)

(* ============ the argument vector of the download module ============== *)
(* download.rs 66-119 *)

MaxChapters == 2

Digit(d) ==
    CASE d = 0 -> "0" [] d = 1 -> "1" [] d = 2 -> "2" [] d = 3 -> "3" [] d = 4 -> "4"
      [] d = 5 -> "5" [] d = 6 -> "6" [] d = 7 -> "7" [] d = 8 -> "8" [] d = 9 -> "9"

\* u32::to_string
RECURSIVE U32ToString(_)
U32ToString(n) == IF n < 10 THEN Digit(n) ELSE U32ToString(n \div 10) \o Digit(n % 10)

\* serde_json's rendering of an f64 with no fractional part
F64ToJson(n) == U32ToString(n) \o ".0"

\* a ChapterRequest (whole seconds)
ChapterRequest(i) ==
    [title |-> "Part " \o U32ToString(i), start_time |-> 60 * (i - 1), end_time |-> 60 * i]

ChapterJson(c) ==
    "{\"title\":\"" \o c.title \o "\",\"start_time\":" \o F64ToJson(c.start_time)
        \o ",\"end_time\":" \o F64ToJson(c.end_time) \o "}"

RECURSIVE CommaJoin(_)
CommaJoin(strs) ==
    IF strs = << >> THEN ""
    ELSE IF Len(strs) = 1 THEN strs[1]
    ELSE strs[1] \o "," \o CommaJoin(Tail(strs))

\* serde_json::to_string(&request.chapters), the option being Some
ChaptersJson(chapters) ==
    "[" \o CommaJoin([i \in 1..Len(chapters) |-> ChapterJson(chapters[i])]) \o "]"

\* serde_json::to_string(per_res); a map is a sequence of << key, value >>
PerResJson(per_res) ==
    "{" \o CommaJoin([i \in 1..Len(per_res) |->
                        "\"" \o per_res[i][1] \o "\":" \o U32ToString(per_res[i][2])])
        \o "}"

Opt(S) == {None} \cup {Some(v) : v \in S}

ChapterLists == {[i \in 1..n |-> ChapterRequest(i)] : n \in 0..MaxChapters}

Requests ==
    [url : {"https://example.com/watch?v=abc"},
     quality : {"1080p"},
     output_dir : {"/home/user/Downloads"},
     audio_only : BOOLEAN,
     sponsorblock : BOOLEAN,
     trim_start : Opt({"0:10"}),
     trim_end : Opt({"1:30"}),
     cookies_browser : Opt({"firefox"}),
     cookies_profile : Opt({"default"}),
     bitrate_mode : Opt({"custom"}),
     custom_bitrate : Opt({5000}),
     per_resolution : Opt({<< >>, << <<"1080p", 8000>> >>}),
     chapters : Opt(ChapterLists)]

DefaultRequest ==
    [url |-> "https://example.com/watch?v=abc", quality |-> "1080p",
     output_dir |-> "/home/user/Downloads", audio_only |-> FALSE,
     sponsorblock |-> FALSE, trim_start |-> None, trim_end |-> None,
     cookies_browser |-> None, cookies_profile |-> None, bitrate_mode |-> None,
     custom_bitrate |-> None, per_resolution |-> None, chapters |-> None]

\* faulty variant of HasChapters: a present but empty list counts as chapters
HasChapters_IsSome(req) == req.chapters # None

\* download.rs 74: chapters.as_ref().map_or(false, |c| !c.is_empty())
HasChapters(req) ==
    IF req.chapters = None THEN FALSE ELSE req.chapters[1] # << >>

\* if let Some(v) = opt { args.push(flag); args.push(f(v)) }
PushOpt(flag, opt, rendered) == IF opt = None THEN << >> ELSE << flag, rendered >>

\* download.rs 67-119: the arguments start_download passes to the module
DownloadArgs(req) ==
    << "run", "--url", req.url, "--quality", req.quality,
       "--output-dir", req.output_dir >>
    \o (IF req.audio_only THEN << "--audio-only" >> ELSE << >>)
    \o (IF req.sponsorblock /\ ~HasChapters(req) THEN << "--sponsorblock" >> ELSE << >>)
    \o (IF HasChapters(req)
        THEN << "--chapters", ChaptersJson(req.chapters[1]) >> ELSE << >>)
    \o PushOpt("--trim-start", req.trim_start, UnwrapOr(req.trim_start, ""))
    \o PushOpt("--trim-end", req.trim_end, UnwrapOr(req.trim_end, ""))
    \o PushOpt("--cookies-browser", req.cookies_browser, UnwrapOr(req.cookies_browser, ""))
    \o PushOpt("--cookies-profile", req.cookies_profile, UnwrapOr(req.cookies_profile, ""))
    \o PushOpt("--bitrate-mode", req.bitrate_mode, UnwrapOr(req.bitrate_mode, ""))
    \o PushOpt("--custom-bitrate", req.custom_bitrate,
               U32ToString(UnwrapOr(req.custom_bitrate, 0)))
    \o PushOpt("--per-res-bitrates", req.per_resolution,
               PerResJson(UnwrapOr(req.per_resolution, << >>)))

VARIABLES
    is_downloading,  \* DownloadState.is_downloading
    holder,          \* history: the start_download call whose acquire set the flag, 0 if free
    process,         \* DownloadState.process: 0 for None, else the task whose child it holds
    plock,           \* the task holding the process handle's mutex, 0 if free
    pc,              \* each task's position in its command
    worker,          \* each runner's child process: none, running, exited, reaped
    wrote,           \* the stdout lines each runner's child has written in this run
    rd,              \* how many of them the line loop has consumed
    stderr,          \* the stderr text of each runner's child (complete at exit)
    rt,              \* the line loop's result / error_msg / error_code
    outcome,         \* the value run_python_module returned to the command
    emitted,         \* notifications each task's current (or last) call has emitted
    ret,             \* what each task's last call returned, None while it runs
    python_parent,   \* PYTHONPATH, from get_python_dir
    request,         \* the DownloadRequest a start_download call was given
    args,            \* the argument vector built from it, << >> before it is built
    cancel_saw       \* history: a start_download call was in flight when this
                     \* cancel_download call began

vars == << is_downloading, holder, process, plock, pc, worker, wrote, rd, stderr,
           rt, outcome, emitted, ret, python_parent, request, args, cancel_saw >>

\* find_python()
Python == "/usr/bin/python3"

\* the module name each command passes to run_python_module
ModuleOf(t) == IF t \in Starters THEN "download" ELSE "analyze"

\* Path::new(&python_dir).parent(): "" for the bare fallback "python"
PythonParents == { "", "/opt/MediaPull" }

Init ==
    /\ is_downloading = FALSE
    /\ holder = 0
    /\ process = 0
    /\ plock = 0
    /\ pc = [t \in Tasks |-> "idle"]
    /\ worker = [t \in Runners |-> "none"]
    /\ wrote = [t \in Runners |-> << >>]
    /\ rd = [t \in Runners |-> 0]
    /\ stderr = [t \in Runners |-> << >>]
    /\ rt = [t \in Runners |-> RouterInit]
    /\ outcome = [t \in Runners |-> None]
    /\ emitted = [t \in Tasks |-> << >>]
    /\ ret = [t \in Tasks |-> None]
    /\ python_parent \in PythonParents
    /\ request = DefaultRequest
    /\ args = << >>
    /\ cancel_saw = [c \in Cancellers |-> FALSE]

Emit(t, ns) == emitted' = [emitted EXCEPT ![t] = @ \o ns]

\* a call begins: no child, no output, no outcome yet (the locals of
\* run_python_module, python.rs 144-166, and of its caller)
NewRun(t) ==
    /\ worker' = [worker EXCEPT ![t] = "none"]
    /\ wrote' = [wrote EXCEPT ![t] = << >>]
    /\ rd' = [rd EXCEPT ![t] = 0]
    /\ stderr' = [stderr EXCEPT ![t] = << >>]
    /\ rt' = [rt EXCEPT ![t] = RouterInit]
    /\ outcome' = [outcome EXCEPT ![t] = None]

(* --------------------------- start_download ---------------------------- *)

\* download.rs 52-64: the flag is free: take it, log, go on to spawn
StartAccept(t) ==
    /\ t \in Starters
    /\ pc[t] = "idle"
    /\ ~is_downloading
    /\ is_downloading' = TRUE
    /\ holder' = t
    /\ emitted' = [emitted EXCEPT ![t] =
           << Notification("download-log",
                           LogPayload("info", "Starting download pipeline..."), 0) >>]
    /\ ret' = [ret EXCEPT ![t] = None]
    /\ NewRun(t)
    /\ pc' = [pc EXCEPT ![t] = "spawn"]
    /\ UNCHANGED << process, plock, python_parent, request, args, cancel_saw >>

\* download.rs 52-57: the flag is held: return the error at once
StartReject(t) ==
    /\ t \in Starters
    /\ pc[t] = "idle"
    /\ is_downloading
    /\ emitted' = [emitted EXCEPT ![t] = << >>]
    /\ ret' = [ret EXCEPT ![t] = Some(Err("A download is already in progress"))]
    /\ UNCHANGED << is_downloading, holder, process, plock, pc, worker, wrote, rd,
                    stderr, rt, outcome, python_parent, request, args, cancel_saw >>

start_download(t) == StartAccept(t) \/ StartReject(t)

\* analyze.rs 5-7: analyze_url calls run_python_module with no handle
analyze_url(t) ==
    /\ t = Analyzer
    /\ pc[t] = "idle"
    /\ emitted' = [emitted EXCEPT ![t] = << >>]
    /\ ret' = [ret EXCEPT ![t] = None]
    /\ NewRun(t)
    /\ pc' = [pc EXCEPT ![t] = "spawn"]
    /\ UNCHANGED << is_downloading, holder, process, plock, python_parent, request, args, cancel_saw >>

(* -------------------------- run_python_module -------------------------- *)

SpawnLog(t) ==
    Notification("download-log",
                 LogPayload("debug", "Python: " \o Python \o " -m python." \o ModuleOf(t)
                                     \o " | PYTHONPATH=" \o python_parent), 0)

\* python.rs 120-155: cmd.spawn() succeeds; the child runs, its pipes are taken
SpawnOk(t) ==
    /\ pc[t] = "spawn"
    /\ Emit(t, << SpawnLog(t) >>)
    /\ worker' = [worker EXCEPT ![t] = "running"]
    /\ pc' = [pc EXCEPT ![t] = IF t \in Starters THEN "store" ELSE "read"]
    /\ UNCHANGED << is_downloading, holder, process, plock, wrote, rd, stderr, rt,
                    outcome, ret, python_parent, request, args, cancel_saw >>

\* faulty variant of Returned: start_download propagates an Err with ?, skipping the
\* reset of the flag and the completion event
Returned_EarlyReturn(t, res) ==
    IF t \in Starters /\ res.ok
    THEN /\ outcome' = [outcome EXCEPT ![t] = Some(res)]
         /\ pc' = [pc EXCEPT ![t] = "reset"]
         /\ ret' = ret
    ELSE /\ outcome' = [outcome EXCEPT ![t] = Some(res)]
         /\ pc' = [pc EXCEPT ![t] = "idle"]
         /\ ret' = [ret EXCEPT ![t] = Some(res)]

\* where run_python_module's caller goes on once it has returned `res`
Returned(t, res) ==
    IF t \in Starters
    THEN /\ outcome' = [outcome EXCEPT ![t] = Some(res)]
         /\ pc' = [pc EXCEPT ![t] = "reset"]
         /\ ret' = ret
    ELSE /\ outcome' = [outcome EXCEPT ![t] = Some(res)]
         /\ pc' = [pc EXCEPT ![t] = "idle"]
         /\ ret' = [ret EXCEPT ![t] = Some(res)]

\* python.rs 144: cmd.spawn() fails, the ? returns the error; no child exists
SpawnFail(t) ==
    /\ pc[t] = "spawn"
    /\ Emit(t, << SpawnLog(t) >>)
    /\ Returned(t, Err("Failed to spawn Python: No such file or directory (os error 2)"))
    /\ UNCHANGED << is_downloading, holder, process, plock, worker, wrote, rd, stderr,
                    rt, python_parent, request, args, cancel_saw >>

\* python.rs 157-161: store the child in the handle, under its lock
StoreChild(t) ==
    /\ pc[t] = "store"
    /\ plock = 0
    /\ process' = t
    /\ pc' = [pc EXCEPT ![t] = "read"]
    /\ UNCHANGED << is_downloading, holder, plock, worker, wrote, rd, stderr, rt,
                    outcome, emitted, ret, python_parent, request, args, cancel_saw >>

\* python.rs 170-216: one iteration of the line loop
ReadLine(t) ==
    /\ pc[t] = "read"
    /\ rd[t] < Len(wrote[t])
    /\ LET i == rd[t] + 1 IN
         /\ rd' = [rd EXCEPT ![t] = i]
         /\ Emit(t, LineEmits(wrote[t][i], i))
         /\ rt' = [rt EXCEPT ![t] = LineRoute(@, wrote[t][i])]
    /\ UNCHANGED << is_downloading, holder, process, plock, pc, worker, wrote, stderr,
                    outcome, ret, python_parent, request, args, cancel_saw >>

\* python.rs 170: reader.lines() ends: the child's stdout is closed and drained
ReadEof(t) ==
    /\ pc[t] = "read"
    /\ rd[t] = Len(wrote[t])
    /\ worker[t] \in {"exited", "reaped"}
    /\ pc' = [pc EXCEPT ![t] = IF t \in Starters THEN "fin_lock" ELSE "join"]
    /\ UNCHANGED << is_downloading, holder, process, plock, worker, wrote, rd, stderr,
                    rt, outcome, emitted, ret, python_parent, request, args, cancel_saw >>

\* python.rs 219-220: handle.lock().await
FinLock(t) ==
    /\ pc[t] = "fin_lock"
    /\ plock = 0
    /\ plock' = t
    /\ pc' = [pc EXCEPT ![t] = "fin_wait"]
    /\ UNCHANGED << is_downloading, holder, process, worker, wrote, rd, stderr, rt,
                    outcome, emitted, ret, python_parent, request, args, cancel_saw >>

\* python.rs 221-225: wait() on whatever child the handle holds (it returns
\* once that child has exited), clear the handle, drop the lock
FinWait(t) ==
    /\ pc[t] = "fin_wait"
    /\ plock = t
    /\ IF process = 0
       THEN worker' = worker
       ELSE /\ worker[process] = "exited"
            /\ worker' = [worker EXCEPT ![process] = "reaped"]
    /\ process' = 0
    /\ plock' = 0
    /\ pc' = [pc EXCEPT ![t] = "join"]
    /\ UNCHANGED << is_downloading, holder, wrote, rd, stderr, rt, outcome, emitted,
                    ret, python_parent, request, args, cancel_saw >>

\* python.rs 227-258: join the stderr thread (its read ends when the child's
\* stderr closes), log the text, decide the outcome
JoinStderr(t) ==
    /\ pc[t] = "join"
    /\ worker[t] \in {"exited", "reaped"}
    /\ Emit(t, StderrEmits(stderr[t]))
    /\ Returned(t, FinalOutcome(rt[t], ModuleOf(t), python_parent, stderr[t]))
    /\ UNCHANGED << is_downloading, holder, process, plock, worker, wrote, rd, stderr,
                    rt, python_parent, request, args, cancel_saw >>

(* ------------------------- start_download, end ------------------------- *)

\* download.rs 131-135: reset downloading state
ResetFlag(t) ==
    /\ pc[t] = "reset"
    /\ is_downloading' = FALSE
    /\ holder' = 0
    /\ pc' = [pc EXCEPT ![t] = "emit"]
    /\ UNCHANGED << process, plock, worker, wrote, rd, stderr, rt, outcome, emitted,
                    ret, python_parent, request, args, cancel_saw >>

\* faulty variant of LifecycleEvent: the completion event whatever the result
LifecycleEvent_AlwaysComplete(res) == "download-complete"

\* download.rs 138-145: the event that reports how the download ended
LifecycleEvent(res) == IF res.ok THEN "download-complete" ELSE "download-error"

\* download.rs 137-147: emit the completion event, return the result
EmitReturn(t) ==
    /\ pc[t] = "emit"
    /\ Emit(t, << Notification(LifecycleEvent(outcome[t][1]), outcome[t][1].val, 0) >>)
    /\ ret' = [ret EXCEPT ![t] = outcome[t]]
    /\ pc' = [pc EXCEPT ![t] = "idle"]
    /\ UNCHANGED << is_downloading, holder, process, plock, worker, wrote, rd, stderr,
                    rt, outcome, python_parent, request, args, cancel_saw >>

(* ---------------------- cancel_download, kill_process ------------------ *)

\* python.rs 262-265: lock the handle; if it holds a child, kill it
KillLock(c) ==
    /\ c \in Cancellers
    /\ pc[c] = "idle"
    /\ plock = 0
    /\ plock' = c
    /\ worker' = IF process # 0 /\ worker[process] = "running"
                 THEN [worker EXCEPT ![process] = "exited"]
                 ELSE worker
    /\ emitted' = [emitted EXCEPT ![c] = << >>]
    /\ ret' = [ret EXCEPT ![c] = None]
    /\ pc' = [pc EXCEPT ![c] = "kill_wait"]
    /\ cancel_saw' = [cancel_saw EXCEPT ![c] = \E t \in Starters : pc[t] # "idle"]
    /\ UNCHANGED << is_downloading, holder, process, wrote, rd, stderr, rt, outcome,
                    python_parent, request, args >>

\* faulty variant of KillWait: the killed child is not waited on
KillWait_NoReap(c) ==
    /\ pc[c] = "kill_wait"
    /\ plock = c
    /\ process' = 0
    /\ plock' = 0
    /\ pc' = [pc EXCEPT ![c] = "flag"]
    /\ UNCHANGED << is_downloading, holder, worker, wrote, rd, stderr, rt, outcome,
                    emitted, ret, python_parent, request, args, cancel_saw >>

\* faulty variant of KillWait: the handle keeps the reaped child
KillWait_NoClear(c) ==
    /\ pc[c] = "kill_wait"
    /\ plock = c
    /\ IF process = 0
       THEN worker' = worker
       ELSE /\ worker[process] = "exited"
            /\ worker' = [worker EXCEPT ![process] = "reaped"]
    /\ plock' = 0
    /\ pc' = [pc EXCEPT ![c] = "flag"]
    /\ UNCHANGED << is_downloading, holder, process, wrote, rd, stderr, rt, outcome,
                    emitted, ret, python_parent, request, args, cancel_saw >>

\* python.rs 266-268: wait() on the killed child, clear the handle, unlock
KillWait(c) ==
    /\ pc[c] = "kill_wait"
    /\ plock = c
    /\ IF process = 0
       THEN worker' = worker
       ELSE /\ worker[process] = "exited"
            /\ worker' = [worker EXCEPT ![process] = "reaped"]
    /\ process' = 0
    /\ plock' = 0
    /\ pc' = [pc EXCEPT ![c] = "flag"]
    /\ UNCHANGED << is_downloading, holder, wrote, rd, stderr, rt, outcome, emitted,
                    ret, python_parent, request, args, cancel_saw >>

\* faulty variant of CancelResult: cancelling when nothing is downloading is an error
CancelResult_Strict(was_downloading) ==
    IF was_downloading THEN Ok("()") ELSE Err("No download in progress")

\* download.rs 163: cancel_download returns Ok(()) whether or not the flag
\* was set when it cleared it
CancelResult(was_downloading) == Ok("()")

\* download.rs 156-163: clear the flag, emit the log and download-cancelled
CancelFlag(c) ==
    /\ pc[c] = "flag"
    /\ is_downloading' = FALSE
    /\ holder' = 0
    /\ Emit(c, << Notification("download-log",
                               LogPayload("warning", "Download cancelled by user"), 0),
                  Notification("download-cancelled", "()", 0) >>)
    /\ ret' = [ret EXCEPT ![c] = Some(CancelResult(is_downloading))]
    /\ pc' = [pc EXCEPT ![c] = "idle"]
    /\ cancel_saw' = [cancel_saw EXCEPT ![c] = FALSE]
    /\ UNCHANGED << process, plock, worker, wrote, rd, stderr, rt, outcome,
                    python_parent, request, args >>

(* ------------------------------ the worker ----------------------------- *)

\* the child writes one more line on stdout
WorkerWrite(t, lines, max) ==
    /\ worker[t] = "running"
    /\ Len(wrote[t]) < max
    /\ \E l \in lines : wrote' = [wrote EXCEPT ![t] = Append(@, l)]
    /\ UNCHANGED << is_downloading, holder, process, plock, pc, worker, rd, stderr,
                    rt, outcome, emitted, ret, python_parent, request, args, cancel_saw >>

\* the child exits by itself, leaving its stderr text
WorkerExit(t, texts) ==
    /\ worker[t] = "running"
    /\ worker' = [worker EXCEPT ![t] = "exited"]
    /\ \E e \in texts : stderr' = [stderr EXCEPT ![t] = e]
    /\ UNCHANGED << is_downloading, holder, process, plock, pc, wrote, rd, rt,
                    outcome, emitted, ret, python_parent, request, args, cancel_saw >>

(* --------------------------- specifications ---------------------------- *)

\* stderr texts in the concurrency specification
CoreStderr == { << >>, << "Traceback (most recent call last):", "", "KeyError: 'url'" >> }

\* start_download and cancel_download tasks interleaving, with their workers
Next ==
    \/ \E t \in Starters :
          \/ start_download(t)
          \/ SpawnOk(t)
          \/ SpawnFail(t)
          \/ StoreChild(t)
          \/ ReadLine(t)
          \/ ReadEof(t)
          \/ FinLock(t)
          \/ FinWait(t)
          \/ JoinStderr(t)
          \/ ResetFlag(t)
          \/ EmitReturn(t)
          \/ WorkerWrite(t, CoreLines, MaxCoreLines)
          \/ WorkerExit(t, CoreStderr)
    \/ \E c \in Cancellers :
          \/ KillLock(c)
          \/ KillWait(c)
          \/ CancelFlag(c)

Spec == Init /\ [][Next]_vars

\* one run_python_module call at a time, its worker writing any sample lines
RouterNext ==
    \/ analyze_url(Analyzer)
    \/ SpawnOk(Analyzer)
    \/ SpawnFail(Analyzer)
    \/ ReadLine(Analyzer)
    \/ ReadEof(Analyzer)
    \/ JoinStderr(Analyzer)
    \/ WorkerWrite(Analyzer, AllLines, MaxLines)
    \/ WorkerExit(Analyzer, StderrSamples)

SpecRouter == Init /\ [][RouterNext]_vars

(* ------------- start_download with a panic in the supervisor ----------- *)

\* python.rs 144-150: cmd.spawn() succeeds and std::thread::spawn then panics
\* (the OS refuses a new thread); the task unwinds out of start_download, the
\* Child is dropped unkilled, and no statement after the call runs
SpawnPanic(t) ==
    /\ pc[t] = "spawn"
    /\ Emit(t, << SpawnLog(t) >>)
    /\ worker' = [worker EXCEPT ![t] = "running"]
    /\ pc' = [pc EXCEPT ![t] = "panicked"]
    /\ UNCHANGED << is_downloading, holder, process, plock, wrote, rd, stderr, rt,
                    outcome, ret, python_parent, request, args, cancel_saw >>

PanicNext ==
    \/ Next
    \/ \E t \in Starters : SpawnPanic(t)

SpecPanic == Init /\ [][PanicNext]_vars

(* ------------------- the same tasks, fairly scheduled ------------------ *)

\* a step of a start_download call that has been accepted
SupervisorStep(t) ==
    \/ SpawnOk(t)
    \/ StoreChild(t)
    \/ ReadLine(t)
    \/ ReadEof(t)
    \/ FinLock(t)
    \/ FinWait(t)
    \/ JoinStderr(t)
    \/ ResetFlag(t)
    \/ EmitReturn(t)

\* a step of a cancel_download call that has taken the handle's lock
CancellerStep(c) == KillWait(c) \/ CancelFlag(c)

\* the runtime polls every task that can run, and the mutexes (tokio's) serve
\* their waiters in order: a step that is enabled again and again is taken;
\* nothing makes a worker process write or exit
SpecFair ==
    /\ Spec
    /\ \A t \in Starters : SF_vars(SupervisorStep(t))
    /\ \A c \in Cancellers : WF_vars(CancellerStep(c))

(* --------- start_download's argument building, over all requests ------- *)

ArgsInit ==
    /\ is_downloading = FALSE
    /\ holder = 0
    /\ process = 0
    /\ plock = 0
    /\ pc = [t \in Tasks |-> "idle"]
    /\ worker = [t \in Runners |-> "none"]
    /\ wrote = [t \in Runners |-> << >>]
    /\ rd = [t \in Runners |-> 0]
    /\ stderr = [t \in Runners |-> << >>]
    /\ rt = [t \in Runners |-> RouterInit]
    /\ outcome = [t \in Runners |-> None]
    /\ emitted = [t \in Tasks |-> << >>]
    /\ ret = [t \in Tasks |-> None]
    /\ python_parent \in PythonParents
    /\ request \in Requests
    /\ args = << >>
    /\ cancel_saw = [c \in Cancellers |-> FALSE]

\* download.rs 66-121: the request's argument vector is built
BuildArgs ==
    /\ args = << >>
    /\ args' = DownloadArgs(request)
    /\ UNCHANGED << is_downloading, holder, process, plock, pc, worker, wrote, rd,
                    stderr, rt, outcome, emitted, ret, python_parent, request,
                    cancel_saw >>

ArgsNext == BuildArgs

SpecArgs == ArgsInit /\ [][ArgsNext]_vars

(* ================= claims about the concurrency guard ================= *)

\* a start_download call that took the flag and has not returned yet
InFlight(t) == t \in Starters /\ pc[t] # "idle"

\* no start_download call is between its acquire and its return
Quiet == \A t \in Starters : pc[t] = "idle"

\* C1: under every interleaving of start_download and cancel_download, at
\* most one download worker process is running (spawned, not yet exited)
C1_AtMostOneWorker ==
    Cardinality({ t \in Starters : worker[t] = "running" }) <= 1

\* C2: a start_download made while another start_download is still in flight
\* returns "A download is already in progress" at once, spawns nothing and
\* leaves the flag and the process handle as they were
C2_RejectedWhileInFlight ==
    [][ \A t \in Starters :
          (start_download(t) /\ \E u \in Starters \ {t} : InFlight(u))
          => /\ ret'[t] = Some(Err("A download is already in progress"))
             /\ pc'[t] = "idle"
             /\ is_downloading' = is_downloading
             /\ process' = process
             /\ worker' = worker ]_vars

\* C3 as stated: an accepted call reaches its spawn only by the step that
\* sets the flag, and the flag is false at the step that returns to the caller
C3_FlagFalseAtReturn ==
    [][ \A t \in Starters :
          /\ (pc[t] # "spawn" /\ pc'[t] = "spawn") => is_downloading'
          /\ EmitReturn(t) => ~is_downloading' ]_vars

\* C3 as amended: an accepted call reaches its spawn only by the step that
\* sets the flag from false to true, it returns only from the point that
\* follows its own reset of the flag (whatever run_python_module returned),
\* and that reset leaves the flag false; the flag may have been taken again
\* by another call before the return
C3_ResetBeforeReturn ==
    [][ \A t \in Starters :
          /\ (pc[t] # "spawn" /\ pc'[t] = "spawn") => (~is_downloading /\ is_downloading')
          /\ (pc[t] # "idle" /\ pc'[t] = "idle") => pc[t] = "emit"
          /\ (pc[t] # "emit" /\ pc'[t] = "emit") => ~is_downloading' ]_vars

\* C3 witness: an accepted call has returned its outcome while another call,
\* accepted after its reset, holds the flag
C3_Witness ==
    \E t \in Starters :
        /\ pc[t] = "idle"
        /\ outcome[t] # None
        /\ ret[t] = outcome[t]
        /\ is_downloading
        /\ holder \in Starters \ {t}

\* C4: the flag is released exactly once per accepted call: when a call
\* resets the flag, the flag is still held, and held by that very call
C4_ReleasedOnceByHolder ==
    [][ \A t \in Starters : ResetFlag(t) => (is_downloading /\ holder = t) ]_vars

\* C10: a step of cancel_download taken while no start_download call is in
\* flight kills nothing, leaves the handle empty and the flag false, and the
\* call returns Ok(())
C10_CancelIdleIsNoop ==
    [][ \A c \in Cancellers :
          (Quiet /\ Quiet' /\ (KillLock(c) \/ KillWait(c) \/ CancelFlag(c)))
          => /\ process = 0 /\ ~is_downloading
             /\ process' = 0 /\ ~is_downloading'
             /\ worker' = worker
             /\ (pc'[c] = "idle" => ret'[c] = Some(Ok("()"))) ]_vars

\* C10 witness: cancel_download has run to its end before any download was
\* ever started
C10_Witness ==
    \E c \in Cancellers :
        /\ pc[c] = "idle"
        /\ ret[c] = Some(Ok("()"))
        /\ Quiet
        /\ \A t \in Starters : worker[t] = "none" /\ ret[t] = None
        /\ process = 0
        /\ ~is_downloading

(* ==================== claims about the event router =================== *)

\* the run these claims look at: the analyze_url call of SpecRouter
A == Analyzer

\* the line decodes to an envelope whose tag is `tag`
IsEvent(line, tag) ==
    ReadsOk(line) /\ ~TrimIsEmpty(line) /\ FromStr(line) # None
    /\ FromStr(line)[1].event = tag

IsTerminalLine(line) == IsEvent(line, "result") \/ IsEvent(line, "error")

\* a line of text, not blank, that does not decode to an envelope
IsUndecodable(line) == ReadsOk(line) /\ ~TrimIsEmpty(line) /\ FromStr(line) = None

Decodable(line) == ~IsUndecodable(line)

\* the notifications the line loop emitted while handling stdout line i
EmittedFor(i) == { k \in DOMAIN emitted[A] : emitted[A][k].src = i }

\* the call has spawned a worker and has returned
RunReturned == ret[A] # None /\ worker[A] # "none"

\* C5: when the worker wrote several terminal events, the outcome is that of
\* the last one: a result with its payload gives Ok(payload), an error with
\* its message gives Err("code: message")
C5_LastTerminalWins ==
    RunReturned =>
        LET terms == SelectSeq(wrote[A], IsTerminalLine) IN
        terms # << >> =>
            LET last == terms[Len(terms)] IN
            /\ last = TxtResult      => ret[A][1] = Ok("a.mp4")
            /\ last = TxtResult2     => ret[A][1] = Ok("b.mp4")
            /\ last = TxtError       => ret[A][1] = Err("E_NET: timeout")
            /\ last = TxtErrorNoCode => ret[A][1] = Err("unknown: no space")

\* C6: a worker that exits having written neither a result nor an error event
\* makes run_python_module return Err with a non-empty message, the
\* no-result text or the stderr summary, with or without stderr text
C6_AbsentResultIsError ==
    (RunReturned /\ SelectSeq(wrote[A], IsTerminalLine) = << >>)
    => /\ ~ret[A][1].ok
       /\ ret[A][1].val # ""
       /\ IF StderrSummary(stderr[A]) = ""
          THEN ret[A][1].val = "Python module 'analyze' returned no result (PYTHONPATH="
                               \o python_parent \o ")"
          ELSE ret[A][1].val = "Python error: " \o StderrSummary(stderr[A])

\* C6 witness: such a run has returned, its worker having left no stderr text
C6_Witness ==
    /\ RunReturned
    /\ wrote[A] = << TxtProgress, TxtRaw >>
    /\ stderr[A] = << >>
    /\ ~ret[A][1].ok

\* what C7 expects a progress or log line to be forwarded as
ExpectedForward(line) ==
    CASE line = TxtProgress ->
            [chan |-> "download-progress",
             payload |-> [stage |-> "download", percent |-> 50, speed_mbps |-> 0,
                          eta_seconds |-> 0, fps |-> 0]]
      [] line = TxtProgressBare ->
            [chan |-> "download-progress",
             payload |-> [stage |-> "", percent |-> 0, speed_mbps |-> 0,
                          eta_seconds |-> 0, fps |-> 0]]
      [] line = TxtLog ->
            [chan |-> "download-log", payload |-> [level |-> "warning", message |-> "slow"]]
      [] line = TxtLogBare ->
            [chan |-> "download-log", payload |-> [level |-> "info", message |-> ""]]

IsProgressLine(line) == IsEvent(line, "progress")

IsProgressNote(n) == n.chan = "download-progress"

\* C7: every progress and log event consumed so far has been forwarded
\* exactly once, the forwarded notifications follow the order of the lines,
\* nothing else is emitted as progress, every line has been consumed when the
\* outcome exists, and N progress lines then a result give N progress
\* notifications and Ok(payload)
C7_ForwardedOnceInOrder ==
    /\ \A i \in 1 .. rd[A] :
          (IsEvent(wrote[A][i], "progress") \/ IsEvent(wrote[A][i], "log"))
          => /\ Cardinality(EmittedFor(i)) = 1
             /\ \A k \in EmittedFor(i) :
                   /\ emitted[A][k].chan = ExpectedForward(wrote[A][i]).chan
                   /\ emitted[A][k].payload = ExpectedForward(wrote[A][i]).payload
    /\ \A j, k \in DOMAIN emitted[A] :
          (j < k /\ emitted[A][j].src > 0 /\ emitted[A][k].src > 0)
          => emitted[A][j].src < emitted[A][k].src
    /\ \A k \in DOMAIN emitted[A] :
          IsProgressNote(emitted[A][k])
          => /\ emitted[A][k].src \in 1 .. rd[A]
             /\ IsProgressLine(wrote[A][emitted[A][k].src])
    /\ (outcome[A] # None /\ worker[A] # "none") => rd[A] = Len(wrote[A])
    /\ ( /\ RunReturned
         /\ wrote[A] # << >>
         /\ wrote[A][Len(wrote[A])] = TxtResult
         /\ \A i \in 1 .. (Len(wrote[A]) - 1) : IsProgressLine(wrote[A][i]) )
       => /\ ret[A][1] = Ok("a.mp4")
          /\ Len(SelectSeq(emitted[A], IsProgressNote)) = Len(wrote[A]) - 1

\* C7 witness: MaxLines - 1 progress lines then a result line, all consumed,
\* the call returned
C7_Witness ==
    /\ RunReturned
    /\ Len(wrote[A]) = MaxLines
    /\ wrote[A][MaxLines] = TxtResult
    /\ \A i \in 1 .. (MaxLines - 1) : IsProgressLine(wrote[A][i])
    /\ Len(SelectSeq(emitted[A], IsProgressNote)) = MaxLines - 1

\* C8: every consumed non-blank line that does not decode was forwarded as
\* exactly one debug log whose message is the raw line, and the outcome is
\* the one the run has without those lines
C8_RawLineIsDebugLog ==
    /\ \A i \in 1 .. rd[A] :
          IsUndecodable(wrote[A][i])
          => /\ Cardinality(EmittedFor(i)) = 1
             /\ \A k \in EmittedFor(i) :
                   /\ emitted[A][k].chan = "download-log"
                   /\ emitted[A][k].payload = [level |-> "debug", message |-> wrote[A][i]]
    /\ RunReturned
       => ret[A][1] = FinalOutcome(RouteAll(RouterInit, SelectSeq(wrote[A], Decodable)),
                                   "analyze", python_parent, stderr[A])

\* C8 witness: a run whose worker wrote a raw line between a result and
\* nothing else has returned that result
C8_Witness ==
    /\ RunReturned
    /\ wrote[A] = << TxtResult, TxtRaw >>
    /\ ret[A][1] = Ok("a.mp4")
    /\ \E k \in DOMAIN emitted[A] : emitted[A][k].payload = [level |-> "debug", message |-> TxtRaw]

\* C9: a consumed line that decodes to an envelope with an unrecognized tag
\* was forwarded as a debug log whose message is the raw line
C9_UnknownTagIsDebugLog ==
    \A i \in 1 .. rd[A] :
        ( /\ ReadsOk(wrote[A][i]) /\ ~TrimIsEmpty(wrote[A][i])
          /\ FromStr(wrote[A][i]) # None
          /\ FromStr(wrote[A][i])[1].event \notin {"progress", "log", "result", "error"} )
        => \E k \in EmittedFor(i) :
              /\ emitted[A][k].chan = "download-log"
              /\ emitted[A][k].payload = [level |-> "debug", message |-> wrote[A][i]]

(* ====================== claims about cancellation ===================== *)

IsCancelledNote(n) == n.chan = "download-cancelled"

\* how many download-cancelled notifications a call has emitted
CancelledCount(ns) == Len(SelectSeq(ns, IsCancelledNote))

\* C11: cancel_download on a handle that references a live worker: the first
\* step signals the worker (it no longer runs) and changes nothing else; the
\* next confirms the exit (reaps it) and clears the handle, the flag and the
\* notifications still untouched; only then the last step releases the flag,
\* emits exactly one download-cancelled and returns Ok(())
C11_CancelLiveWorkerInOrder ==
    [][ \A c \in Cancellers :
          /\ (KillLock(c) /\ process # 0 /\ worker[process] = "running")
             => /\ worker'[process] = "exited"
                /\ process' = process
                /\ is_downloading' = is_downloading
                /\ CancelledCount(emitted'[c]) = 0
          /\ (pc[c] # "flag" /\ pc'[c] = "flag")
             => /\ pc[c] = "kill_wait"
                /\ process # 0 => worker'[process] = "reaped"
                /\ process' = 0
                /\ is_downloading' = is_downloading
                /\ CancelledCount(emitted'[c]) = 0
          /\ (pc[c] # "idle" /\ pc'[c] = "idle")
             => /\ pc[c] = "flag"
                /\ ~is_downloading'
                /\ CancelledCount(emitted'[c]) = 1
                /\ ret'[c] = Some(Ok("()")) ]_vars

\* C11 witness: cancel_download has returned after it killed and reaped the
\* worker of a call that is still in its line loop
C11_Witness ==
    \E c \in Cancellers, t \in Starters :
        /\ pc[c] = "idle"
        /\ ret[c] = Some(Ok("()"))
        /\ CancelledCount(emitted[c]) = 1
        /\ pc[t] = "read"
        /\ worker[t] = "reaped"
        /\ process = 0
        /\ ~is_downloading

(* ================= claims about the argument vector =================== *)

Contains(seq, x) == \E i \in 1..Len(seq) : seq[i] = x

\* C12: the argument vector built for a request contains --sponsorblock
\* exactly when the request asks for SponsorBlock and its chapter list is
\* absent or empty
C12_SponsorblockIffNoChapters ==
    args # << >> =>
        (Contains(args, "--sponsorblock")
            <=> (/\ request.sponsorblock
                 /\ (request.chapters = None \/ request.chapters = Some(<< >>))))

\* C12 witness: SponsorBlock was requested with a present but empty chapter
\* list and the vector carries the flag
C12_Witness ==
    /\ args # << >>
    /\ request.sponsorblock
    /\ request.chapters = Some(<< >>)
    /\ Contains(args, "--sponsorblock")

(* =================== claims about the error outcome =================== *)

IsErrorLine(line) == IsEvent(line, "error")

\* C13: a run whose terminal events are all error events fails with
\* "code: message" of the last one, the code being "unknown" when the event
\* has none and the message empty when the event has none
C13_ErrorEventFailsWithCodeMessage ==
    RunReturned =>
        LET terms == SelectSeq(wrote[A], IsTerminalLine) IN
        (terms # << >> /\ \A i \in 1..Len(terms) : IsErrorLine(terms[i])) =>
            LET last == terms[Len(terms)] IN
            /\ last = TxtError       => ret[A][1] = Err("E_NET: timeout")
            /\ last = TxtErrorNoCode => ret[A][1] = Err("unknown: no space")
            /\ last = TxtErrorNoMsg  => ret[A][1] = Err("E_NET: ")

(* =================== claims about the process handle ================== *)

\* C14: the process handle is Some only while the child it references has
\* not been reaped and the run_python_module call that stored it has not
\* returned (it is in its line loop or its finalization); whoever reaps the
\* child clears the handle in the same critical section
C14_HandleOnlyWhileUnreaped ==
    process # 0 =>
        /\ process \in Starters
        /\ worker[process] \in {"running", "exited"}
        /\ pc[process] \in {"read", "fin_lock", "fin_wait"}

\* C14 witness: a call's own finalization has reaped its child and the
\* handle is None again
C14_Witness ==
    \E t \in Starters :
        /\ pc[t] = "join"
        /\ worker[t] = "reaped"
        /\ process = 0
        /\ \A c \in Cancellers : pc[c] = "idle" /\ ret[c] = None

\* C15: when a run_python_module call that spawned a worker has returned its
\* outcome, with or without a process handle, the worker has exited and has
\* been reaped
C15_ReapedBeforeOutcome ==
    \A t \in Runners :
        (outcome[t] # None /\ worker[t] # "none") => worker[t] = "reaped"

(* ======================= claims about the locks ======================= *)

\* the task is inside a wait() on a child that is still running
WaitsForExit(t) ==
    /\ pc[t] \in {"fin_wait", "kill_wait"}
    /\ process # 0
    /\ worker[process] = "running"

\* C16: no task is blocked waiting for a worker process to exit while it
\* holds the process handle's lock
C16_NoWaitUnderHandleLock ==
    \A t \in Tasks : plock = t => ~WaitsForExit(t)

\* the task's call is over, by a return or by a panic
Terminated(t) == pc[t] \in {"idle", "panicked"}

\* C17: the flag is never left set by a start_download call that is over,
\* even when the call ended in a panic after it had acquired the flag
C17_FlagReleasedAfterPanic ==
    is_downloading => (holder # 0 /\ ~Terminated(holder))

(* ============== claims about cancellation in mid-stream =============== *)

\* the call is in its line loop and its worker has been killed and reaped
KilledMidStream(t) == pc[t] = "read" /\ worker[t] = "reaped"

\* C18: a start_download call whose worker a concurrent cancel_download has
\* killed while the call was in its line loop reaches end of stream,
\* finalizes and returns
C18_KilledCallReturns ==
    \A t \in Starters : KilledMidStream(t) ~> (pc[t] = "idle")

\* C19: when a cancel_download call that began while an accepted
\* start_download call was in flight returns, no download worker is running,
\* whether or not the call had stored its child in the handle yet
C19_NoWorkerAfterCancel ==
    [][ \A c \in Cancellers :
          (CancelFlag(c) /\ cancel_saw[c])
          => \A t \in Starters : worker'[t] # "running" ]_vars

(* ================ claims about the lifecycle events ==================== *)

IsLifecycleNote(n) == n.chan \in {"download-complete", "download-error"}

\* how many download-complete / download-error notifications a call emitted
LifecycleCount(ns) == Len(SelectSeq(ns, IsLifecycleNote))

\* C20: an accepted start_download call has emitted no lifecycle notification
\* while it is in flight; it concludes by the one step that follows the reset
\* of the flag, and has then emitted exactly one, download-complete with the
\* payload when it returns Ok and download-error with the message when it
\* returns Err; a rejected call emits none
C20_OneLifecycleEventAfterReset ==
    [][ \A t \in Starters :
          /\ pc'[t] # "idle" => LifecycleCount(emitted'[t]) = 0
          /\ (pc[t] # "emit" /\ pc'[t] = "emit") => (pc[t] = "reset" /\ ~is_downloading')
          /\ (pc[t] # "idle" /\ pc'[t] = "idle")
             => /\ pc[t] = "emit"
                /\ LifecycleCount(emitted'[t]) = 1
                /\ LET last == emitted'[t][Len(emitted'[t])]
                       res == ret'[t][1] IN
                   /\ last.chan = (IF res.ok THEN "download-complete"
                                             ELSE "download-error")
                   /\ last.payload = res.val
          /\ StartReject(t) => emitted'[t] = << >> ]_vars

\* C20 witness: a call whose worker reported an error has returned and its
\* last notification is download-error
C20_Witness ==
    \E t \in Starters :
        /\ pc[t] = "idle"
        /\ ret[t] = Some(Err("E_NET: timeout"))
        /\ LifecycleCount(emitted[t]) = 1
        /\ emitted[t][Len(emitted[t])].chan = "download-error"

(* ============ claims about whose child the handle holds =============== *)

\* C21: the finalization of a start_download call waits on and clears only
\* the child that this call stored (or finds the handle already empty), and
\* storing a child never replaces a reference to a worker that still runs
C21_HandleTouchesOwnChildOnly ==
    [][ \A t \in Starters :
          /\ FinWait(t) => process \in {0, t}
          /\ StoreChild(t) => ~(process # 0 /\ worker[process] = "running") ]_vars

====
